---- MODULE Spec2Model ----
(***************************************************************************)
(* Forecast cache of BackendDB/server.py: the process-wide forecast_cache  *)
(* dictionary, update_forecast_cache (the recompute), the background       *)
(* thread retrain_forecast_models, the request handlers api_forecast and   *)
(* sensor_dashboard that read through the cache, and add_log, the only     *)
(* place that resets the cache date.                                       *)
(*                                                                         *)
(* Threads interleave at every access to shared state: one step per        *)
(* database query and one per store into forecast_cache.  Numbers held in  *)
(* the cache are in hundredths (round(x, 2) of the code); floating-point   *)
(* error of the regression is not modelled, the arithmetic is exact.       *)
(***************************************************************************)
EXTENDS Integers, Sequences, FiniteSets, TLC

(***************************************************************************)
(* Bounds of the model.                                                    *)
(***************************************************************************)
NumReaders == 1
MaxRuns == 2
MaxDay == 1
MaxRequests == 1
MaxSpan == 4
MaxValue == 5
MaxMonths == 7
MaxMonthlyValue == 8
MaxThreshold == 8
MaxSeries == 9
MaxPerPage == 3
MaxPage == 4

(***************************************************************************)
(* Optional values: Python's None is the empty tuple, a present value x    *)
(* is <<x>>.                                                               *)
(***************************************************************************)
None == <<>>
Some(x) == <<x>>

Sched == 0
Readers == 1..NumReaders
Procs == {Sched} \cup Readers

(***************************************************************************)
(* models.py: the columns of the mapped class SensorData.                  *)
(***************************************************************************)
SensorDataColumns == {"id", "steps", "datetime", "raw_voltage", "raw_current"}

(* add_log, lines 374-380: the keyword arguments it passes to SensorData(). *)
AddLogKwargs == {"datetime", "steps", "raw_voltage", "raw_current", "battery_health"}

(* SQLAlchemy's declarative constructor raises TypeError for a keyword     *)
(* that is no attribute of the mapped class.                               *)
ConstructorAccepts(kwargs) == kwargs \subseteq SensorDataColumns

(***************************************************************************)
(* Contents of the sensor_data table when the process starts.  A reading   *)
(* is [id, day, steps, v, c]; v and c are optional (nullable columns).     *)
(***************************************************************************)
Reading(i, d, v, c) == [id |-> i, day |-> d, steps |-> Some(1), v |-> v, c |-> c]

StoreEmpty == {}
StoreTwoDays == {Reading(1, 0, Some(1), Some(2)), Reading(2, 1, Some(2), Some(2)),
                 Reading(3, 1, Some(3), Some(2))}
StoreNullVoltage == {Reading(1, 0, None, Some(1))}
StoreNullCurrent == {Reading(1, 0, Some(1), None)}
StoreChoices == {StoreEmpty, StoreTwoDays, StoreNullVoltage, StoreNullCurrent}

(***************************************************************************)
(* Aggregation query layer: prepare_daily_avg_data.                        *)
(***************************************************************************)
(* getattr(SensorData, field) applied to a row, field a column name. *)
FieldOf(r, field) ==
    CASE field = "raw_voltage" -> r.v
      [] field = "raw_current" -> r.c
      [] field = "steps" -> r.steps
      [] field = "id" -> Some(r.id)
      [] field = "datetime" -> Some(r.day)

RECURSIVE SumOf(_, _)
SumOf(rows, field) ==
    IF rows = {} THEN 0
    ELSE LET r == CHOOSE x \in rows : TRUE
         IN FieldOf(r, field)[1] + SumOf(rows \ {r}, field)

(* func.sum(column) over one group, in the shape of an average. *)
SumAsAvg(rows, field) ==
    LET nn == {r \in rows : FieldOf(r, field) # None}
    IN IF nn = {} THEN None ELSE <<SumOf(nn, field), 1>>

(* func.avg(column) over one group: NULLs are skipped, NULL when none is left. *)
AvgOf(rows, field) ==
    LET nn == {r \in rows : FieldOf(r, field) # None}
    IN IF nn = {} THEN None ELSE <<SumOf(nn, field), Cardinality(nn)>>

RECURSIVE Ascending(_)
Ascending(S) ==
    IF S = {} THEN <<>>
    ELSE LET m == CHOOSE x \in S : \A y \in S : x <= y
         IN <<m>> \o Ascending(S \ {m})

(* Line 126: getattr(SensorData, field) raises AttributeError for a name   *)
(* that is no attribute of the mapped class.                               *)
GetattrRaises(field) == field \notin SensorDataColumns

(* The daily rows with the latest day first, numbered from that day. *)
DailyDescending(rows, field) ==
    IF rows = {} THEN None
    ELSE LET days == Ascending({r.day : r \in rows})
             n == Len(days)
         IN [i \in 1..n |->
                [day_num |-> days[n + 1 - i] - days[n],
                 avg |-> AvgOf({r \in rows : r.day = days[n + 1 - i]}, field)]]

(* The rows of GROUP BY date ORDER BY date, with day_num = days since the  *)
(* earliest date; None (no rows) when the table is empty.                  *)
prepare_daily_avg_data(rows, field) ==
    IF rows = {} THEN None
    ELSE LET days == Ascending({r.day : r \in rows})
         IN [i \in 1..Len(days) |->
                [day_num |-> days[i] - days[1],
                 avg |-> AvgOf({r \in rows : r.day = days[i]}, field)]]

(***************************************************************************)
(* Trend predictor: LinearRegression().fit(X, y).predict(max day_num + 1), *)
(* rounded to two decimals.                                                *)
(***************************************************************************)
(* fit() raises ValueError when y holds a missing value. *)
FitRaises(series) == \E i \in 1..Len(series) : series[i].avg = None

RECURSIVE DenProduct(_)
DenProduct(series) ==
    IF series = <<>> THEN 1 ELSE Head(series).avg[2] * DenProduct(Tail(series))

RECURSIVE SumSeq(_, _, _, _)
(* Sum over the series of x^px * Y^py, Y = avg scaled by the common denominator D. *)
SumSeq(series, D, px, py) ==
    IF series = <<>> THEN 0
    ELSE LET x == Head(series).day_num
             Y == (Head(series).avg[1] * D) \div Head(series).avg[2]
             xt == IF px = 0 THEN 1 ELSE IF px = 1 THEN x ELSE x * x
             yt == IF py = 0 THEN 1 ELSE Y
         IN xt * yt + SumSeq(Tail(series), D, px, py)

(* round(num/den, 2) in hundredths, den > 0; a tie goes to the even neighbour. *)
Round2(num, den) ==
    LET q == (100 * num) \div den
        rem == 100 * num - q * den
    IN IF 2 * rem > den THEN q + 1
       ELSE IF 2 * rem < den THEN q
       ELSE IF q % 2 = 0 THEN q ELSE q + 1

(* The mean of the averages: a fit whose slope is dropped. *)
MeanOfSeries(series) ==
    Round2(SumSeq(series, DenProduct(series), 0, 1), Len(series) * DenProduct(series))

(* The least-squares line through (day_num, avg) evaluated at max day_num + 1. *)
(* With a single point the minimum-norm solution has slope 0.                  *)
PredictNext(series) ==
    LET n == Len(series)
        D == DenProduct(series)
        Sx == SumSeq(series, D, 1, 0)
        Sxx == SumSeq(series, D, 2, 0)
        Sy == SumSeq(series, D, 0, 1)
        Sxy == SumSeq(series, D, 1, 1)
        next_day_num == series[n].day_num + 1
        det == n * Sxx - Sx * Sx
    IN IF det = 0 THEN Round2(Sy, n * D)
       ELSE Round2(Sy * det + (n * Sxy - Sx * Sy) * (n * next_day_num - Sx), n * det * D)


(* Lines 209-213 (voltage) and 215-219 (current) of update_forecast_cache  *)
(* as a function of the table: the next-day forecast it stores, if any,    *)
(* and whether fit raised.                                                 *)
NextDayForecast(rows, field) ==
    LET X == prepare_daily_avg_data(rows, field)
    IN IF X = None THEN [raised |-> FALSE, value |-> None]
       ELSE IF FitRaises(X) THEN [raised |-> TRUE, value |-> None]
       ELSE [raised |-> FALSE, value |-> Some(PredictNext(X))]

(***************************************************************************)
(* Monthly aggregation and the best-month predictor: load_monthly_data     *)
(* (lines 148-173) and predict_highest_month (lines 175-201).              *)
(***************************************************************************)
MIN_MONTHS_REQUIRED == 6
Horizon == 12

(* The calendar: days are numbered from the first day of a January and a   *)
(* month has DaysPerMonth days.  date_format(datetime, "%Y-%m-01") keeps   *)
(* the month of a reading, numbered from that January.                     *)
DaysPerMonth == 30
MonthOf(d) == d \div DaysPerMonth
YearOf(m) == m \div 12
MonthInYear(m) == (m % 12) + 1

(* Lines 156-164: one row per month that has readings, ascending. *)
MonthlyData(rows, field) ==
    LET months == Ascending({MonthOf(r.day) : r \in rows})
    IN [i \in 1..Len(months) |->
           [month |-> months[i],
            avg |-> AvgOf({r \in rows : MonthOf(r.day) = months[i]}, field)]]

(* The frame with its rows numbered 1, 2, 3, ... *)
RowNumbered(rows, field) ==
    LET md == MonthlyData(rows, field)
    IN [i \in 1..Len(md) |-> [month |-> md[i].month, avg |-> md[i].avg, month_num |-> i]]

(* Lines 169-173: the frame with month_num = 12 * (year - first year) +    *)
(* month of the year.                                                      *)
MonthlyFrame(rows, field) ==
    LET md == MonthlyData(rows, field)
    IN [i \in 1..Len(md) |->
           [month |-> md[i].month,
            avg |-> md[i].avg,
            month_num |-> (YearOf(md[i].month) - YearOf(md[1].month)) * 12
                          + MonthInYear(md[i].month)]]

(* The frame whatever its length. *)
WithoutThreshold(rows, field, min_months_required) == Some(MonthlyFrame(rows, field))

(* Lines 166-167: None when there are fewer months than required. *)
load_monthly_data(rows, field, min_months_required) ==
    IF Len(MonthlyData(rows, field)) < min_months_required
    THEN None
    ELSE Some(MonthlyFrame(rows, field))

(* Lines 186-187: X = month_num, y = avg_value. *)
Regressors(df) == [i \in 1..Len(df) |-> [day_num |-> df[i].month_num, avg |-> df[i].avg]]

(* model.predict at x as the fraction <<numerator, denominator>>, the      *)
(* denominator positive and the same for every x.                          *)
PredictAt(series, x) ==
    LET n == Len(series)
        D == DenProduct(series)
        Sx == SumSeq(series, D, 1, 0)
        Sxx == SumSeq(series, D, 2, 0)
        Sy == SumSeq(series, D, 0, 1)
        Sxy == SumSeq(series, D, 1, 1)
        det == n * Sxx - Sx * Sx
    IN IF det = 0 THEN <<Sy, n * D>>
       ELSE <<Sy * det + (n * Sxy - Sx * Sy) * (n * x - Sx), n * det * D>>

(* An index that is always the first. *)
FirstIndex(predictions) == 1

(* The last index of the greatest prediction. *)
LastArgmax(predictions) ==
    CHOOSE i \in 1..Len(predictions) :
        /\ \A j \in 1..Len(predictions) :
              predictions[j][1] * predictions[i][2] <= predictions[i][1] * predictions[j][2]
        /\ \A j \in (i + 1)..Len(predictions) :
              predictions[j][1] * predictions[i][2] < predictions[i][1] * predictions[j][2]

(* Line 200: np.argmax, the first index of the greatest prediction. *)
BestIndex(predictions) ==
    CHOOSE i \in 1..Len(predictions) :
        /\ \A j \in 1..Len(predictions) :
              predictions[j][1] * predictions[i][2] <= predictions[i][1] * predictions[j][2]
        /\ \A j \in 1..(i - 1) :
              predictions[j][1] * predictions[i][2] < predictions[i][1] * predictions[j][2]

(* A date counted from the earliest month by the month number itself. *)
DateFromIndex(df, m) == df[1].month + m

(* Lines 194-198: start_month + DateOffset(months = m - min month_num),    *)
(* start_month the earliest month of the frame; the frame is ascending, so *)
(* its first row holds both minima.                                        *)
PredictedDate(df, m) == df[1].month + (m - df[1].month_num)

NoPrediction == [raised |-> FALSE, fitted |-> FALSE, month |-> None, value |-> None]

(* Lines 175-201.  fit raises on an empty frame and on a missing average.  *)
(* The label is the month (numbered as by MonthOf) of the best prediction. *)
predict_highest_month(rows, field, min_months_required) ==
    LET loaded == load_monthly_data(rows, field, min_months_required)
    IN IF loaded = None THEN NoPrediction
       ELSE LET df == loaded[1]
                series == Regressors(df)
            IN IF df = <<>> \/ FitRaises(series)
               THEN [NoPrediction EXCEPT !.raised = TRUE, !.fitted = TRUE]
               ELSE LET future_months ==
                            [i \in 1..Horizon |-> df[Len(df)].month_num + i]
                        predictions ==
                            [i \in 1..Horizon |-> PredictAt(series, future_months[i])]
                        best_idx == BestIndex(predictions)
                    IN [raised |-> FALSE,
                        fitted |-> TRUE,
                        month |-> Some(PredictedDate(df, future_months[best_idx])),
                        value |-> Some(Round2(predictions[best_idx][1],
                                              predictions[best_idx][2]))]

(***************************************************************************)
(* Pages: the chart pages of chart_data_alias (lines 782-799) and          *)
(* sensor_dashboard (lines 567-578), the log pages of api_sensor_data      *)
(* (lines 679-697).                                                        *)
(***************************************************************************)
RECURSIVE Descending(_)
Descending(S) ==
    IF S = {} THEN <<>>
    ELSE LET m == CHOOSE x \in S : \A y \in S : y <= x
         IN <<m>> \o Descending(S \ {m})

(* Lines 271-285: one row per day, the latest day first. *)
get_chart_query(rows) ==
    LET days == Descending({r.day : r \in rows})
    IN [i \in 1..Len(days) |->
           [date |-> days[i],
            avg_voltage |-> AvgOf({r \in rows : r.day = days[i]}, "raw_voltage"),
            avg_current |-> AvgOf({r \in rows : r.day = days[i]}, "raw_current"),
            total_steps |-> SumOf({r \in rows : r.day = days[i] /\ r.steps # None},
                                  "steps")]]

(* Lines 239-249 with no filter: the readings, the latest first (tables    *)
(* with one reading per datetime).                                         *)
get_sensor_query(rows) ==
    LET days == Descending({r.day : r \in rows})
    IN [i \in 1..Len(days) |-> CHOOSE r \in rows : r.day = days[i]]

(* ceil(a / b) for a >= 0 and b > 0, rounded down instead. *)
Floor(a, b) == a \div b

(* math.ceil(a / b) for a >= 0 and b > 0. *)
Ceil(a, b) == IF a % b = 0 THEN a \div b ELSE (a \div b) + 1

(* Lines 787, 570, 686: ceil(n / per_page) if n else 1. *)
TotalPages(n, per_page) == IF n = 0 THEN 1 ELSE Ceil(n, per_page)

(* list[lo:hi] for 0 <= lo <= hi, and OFFSET lo LIMIT hi - lo. *)
Slice(list, lo, hi) ==
    SubSeq(list, lo + 1, IF hi <= Len(list) THEN hi ELSE Len(list))

(* The selected slice as it stands. *)
AsSliced(list) == list

(* list[::-1] *)
Reversed(list) == [i \in 1..Len(list) |-> list[Len(list) + 1 - i]]

NoPage == [raised |-> FALSE, items |-> <<>>, total_pages |-> 0]

(* Lines 793-796, 575-578: label and rounded values of one day; round()    *)
(* raises TypeError on an average that is None.                            *)
ChartPoint(d) ==
    [date |-> d.date,
     voltage |-> Round2(d.avg_voltage[1], d.avg_voltage[2]),
     current |-> Round2(d.avg_current[1], d.avg_current[2]),
     steps |-> d.total_steps]

(* Lines 785-799.  The division raises ZeroDivisionError for a page size   *)
(* of 0 when there are days.                                               *)
chart_data_alias(rows, chart_page, chart_days_per_page) ==
    LET daily_aggregates == get_chart_query(rows)
    IN IF daily_aggregates # <<>> /\ chart_days_per_page = 0
       THEN [NoPage EXCEPT !.raised = TRUE]
       ELSE LET paginated_chart_data ==
                    Reversed(Slice(daily_aggregates,
                                   (chart_page - 1) * chart_days_per_page,
                                   chart_page * chart_days_per_page))
            IN IF \E i \in DOMAIN paginated_chart_data :
                      \/ paginated_chart_data[i].avg_voltage = None
                      \/ paginated_chart_data[i].avg_current = None
               THEN [NoPage EXCEPT !.raised = TRUE]
               ELSE [raised |-> FALSE,
                     items |-> [i \in DOMAIN paginated_chart_data |->
                                   ChartPoint(paginated_chart_data[i])],
                     total_pages |-> TotalPages(Len(daily_aggregates),
                                                chart_days_per_page)]

(* Line 477 and lines 567-578: the same page with 7 days per page. *)
chart_days_per_page == 7
sensor_dashboard_chart(rows, chart_page) ==
    chart_data_alias(rows, chart_page, chart_days_per_page)

(* Lines 679-697: count, OFFSET/LIMIT, total_pages. *)
api_sensor_data(rows, page, per_page) ==
    LET sensor_query == get_sensor_query(rows)
        total_logs == Len(sensor_query)
    IN IF total_logs # 0 /\ per_page = 0
       THEN [NoPage EXCEPT !.raised = TRUE]
       ELSE [raised |-> FALSE,
             items |-> [i \in DOMAIN Slice(sensor_query, (page - 1) * per_page,
                                            page * per_page) |->
                           Slice(sensor_query, (page - 1) * per_page, page * per_page)[i].id],
             total_pages |-> TotalPages(total_logs, per_page)]

(***************************************************************************)
(* State.                                                                  *)
(***************************************************************************)
VARIABLES
    store,           \* rows of the sensor_data table
    storeUp,         \* the database answers queries
    today,           \* datetime.now().date(), as a day number
    forecast_cache,  \* the global dictionary: voltage, current, date
    wr,              \* per key of forecast_cache, whose execution of update_forecast_cache
                     \* stored it last: a thread (its latest execution) or Earlier
    nRuns,           \* executions of update_forecast_cache started so far
    nReq,            \* requests accepted so far
    pc,              \* per thread, the statement it is at
    loc,             \* per thread, the locals of update_forecast_cache and the handler's name
    gh,              \* per thread, history of its latest call of update_forecast_cache:
                     \* it ended in the except clause; it was made on a stale cache
    resp,            \* per request thread, the response of its latest request
    sleptOn,         \* the day on which the background thread went to sleep
    call,            \* a single function called on its own: its name and arguments
    ret              \* what that call returned

vars == <<store, storeUp, today, forecast_cache, wr, nRuns, nReq, pc, loc, gh,
          resp, sleptOn, call, ret>>

UpdatePcs == {"u_qv", "u_wv", "u_qc", "u_wc", "u_wd"}

NoLocals == [handler |-> "none", Xv |-> None, Xc |-> None]
EmptyCache == [voltage |-> None, current |-> None, date |-> None]
(* A key never stored, or stored by an execution that is not the latest of *)
(* its thread.                                                             *)
Earlier == -1
NoHistory == [failed |-> FALSE, stale |-> FALSE]
NoBest == [month |-> None, value |-> None]
NoResponse == [status |-> 0, body |-> "none", v |-> None, c |-> None,
               wv |-> Earlier, wc |-> Earlier,
               best_voltage |-> NoBest, best_current |-> NoBest]
NoCall == [fn |-> "none", rows |-> {}, field |-> "none", min_months_required |-> 0,
           page |-> 0, per_page |-> 0]
NoReturn == [done |-> FALSE, raised |-> FALSE, fitted |-> FALSE, df |-> None,
             month |-> None, value |-> None, items |-> <<>>, total_pages |-> 0]

(* How the module came to run.  Line 843: the background thread is started *)
(* only when the file is the main script (python server.py); a WSGI server *)
(* or "flask run" imports the module, __name__ is then "server" and lines  *)
(* 844-846 are skipped: the application object serves with no thread.      *)
StartModes == {"__main__", "imported"}

(* A thread object that is created and never started. *)
NeverStarted(mode) == "off"

FirstStatement(mode) == IF mode = "__main__" THEN "s_call" ELSE "off"

(* Lines 52-56 and 843-846: the cache as defined at import, the background *)
(* thread (if started) about to make its first call.                       *)
Init ==
    /\ store \in StoreChoices
    /\ storeUp = TRUE
    /\ today = 0
    /\ forecast_cache = EmptyCache
    /\ wr = [voltage |-> Earlier, current |-> Earlier, date |-> Earlier]
    /\ nRuns = 0
    /\ nReq = 0
    /\ \E mode \in StartModes :
          /\ pc = [p \in Procs |-> IF p = Sched THEN FirstStatement(mode) ELSE "idle"]
          /\ loc = [p \in Procs |->
                      IF p = Sched /\ mode = "__main__"
                      THEN [NoLocals EXCEPT !.handler = "retrain_forecast_models"]
                      ELSE NoLocals]
    /\ gh = [p \in Procs |-> NoHistory]
    /\ resp = [p \in Readers |-> NoResponse]
    /\ sleptOn = 0
    /\ call = NoCall
    /\ ret = NoReturn

(***************************************************************************)
(* update_forecast_cache, lines 203-224, one step per query and per store  *)
(* into forecast_cache.                                                    *)
(***************************************************************************)
(* A staleness test that only asks whether a date was ever stored. *)
DateIsAbsent(cache, day) == cache.date = None

(* Lines 708 and 559: the staleness test of the readers. *)
CacheIsStale(cache, day) == cache.date # Some(day)

(* Where a thread continues when update_forecast_cache returns: the        *)
(* background loop goes to time.sleep (line 233), a handler to the monthly *)
(* predictions (lines 711, 562).                                           *)
AfterReturn(p) == IF p = Sched THEN "s_sleep" ELSE "bm"

(* An exception that is not caught leaves the function and unwinds the     *)
(* caller: the thread is at no statement of its handler or loop any more.  *)
Propagates(p) == "raised"

(* Lines 223-224: except Exception logs the error and the function returns *)
(* normally.                                                               *)
AfterRaise(p) == AfterReturn(p)

Age(w, p) == IF w = p THEN Earlier ELSE w

(* The call itself: a new execution by p starts at line 209; what p stored *)
(* before is from an earlier execution now.                                *)
Enter(p, foundStale) ==
    /\ nRuns < MaxRuns
    /\ nRuns' = nRuns + 1
    /\ pc' = [pc EXCEPT ![p] = "u_qv"]
    /\ gh' = [gh EXCEPT ![p] = [failed |-> FALSE, stale |-> foundStale]]
    /\ wr' = [k \in DOMAIN wr |-> Age(wr[k], p)]
    /\ resp' = [q \in Readers |-> [resp[q] EXCEPT !.wv = Age(@, p), !.wc = Age(@, p)]]

(* The function returns (normally, or after the except clause). *)
Leave(p, raised) ==
    /\ pc' = [pc EXCEPT ![p] = IF raised THEN AfterRaise(p) ELSE AfterReturn(p)]
    /\ loc' = [loc EXCEPT ![p] = [@ EXCEPT !.Xv = None, !.Xc = None]]
    /\ gh' = [gh EXCEPT ![p] = [@ EXCEPT !.failed = raised]]
    /\ sleptOn' = IF p = Sched THEN today ELSE sleptOn

(* Line 209: prepare_daily_avg_data("raw_voltage"); the query raises when  *)
(* the database is unreachable.                                            *)
UpdateQueryVoltage(p) ==
    /\ pc[p] = "u_qv"
    /\ IF storeUp
       THEN /\ loc' = [loc EXCEPT ![p].Xv = prepare_daily_avg_data(store, "raw_voltage")]
            /\ pc' = [pc EXCEPT ![p] = "u_wv"]
            /\ UNCHANGED <<gh, sleptOn>>
       ELSE Leave(p, TRUE)
    /\ UNCHANGED <<store, storeUp, today, forecast_cache, wr, nRuns, nReq, resp>>
    /\ UNCHANGED <<call, ret>>

(* Lines 210-213: fit, predict, store forecast_cache["voltage"]. *)
UpdateStoreVoltage(p) ==
    /\ pc[p] = "u_wv"
    /\ IF loc[p].Xv = None
       THEN /\ pc' = [pc EXCEPT ![p] = "u_qc"]
            /\ UNCHANGED <<forecast_cache, wr, loc, gh, sleptOn>>
       ELSE IF FitRaises(loc[p].Xv)
       THEN /\ Leave(p, TRUE)
            /\ UNCHANGED <<forecast_cache, wr>>
       ELSE /\ forecast_cache' =
                  [forecast_cache EXCEPT !.voltage = Some(PredictNext(loc[p].Xv))]
            /\ wr' = [wr EXCEPT !.voltage = p]
            /\ pc' = [pc EXCEPT ![p] = "u_qc"]
            /\ UNCHANGED <<loc, gh, sleptOn>>
    /\ UNCHANGED <<store, storeUp, today, nRuns, nReq, resp>>
    /\ UNCHANGED <<call, ret>>

(* Line 215: prepare_daily_avg_data("raw_current"). *)
UpdateQueryCurrent(p) ==
    /\ pc[p] = "u_qc"
    /\ IF storeUp
       THEN /\ loc' = [loc EXCEPT ![p].Xc = prepare_daily_avg_data(store, "raw_current")]
            /\ pc' = [pc EXCEPT ![p] = "u_wc"]
            /\ UNCHANGED <<gh, sleptOn>>
       ELSE Leave(p, TRUE)
    /\ UNCHANGED <<store, storeUp, today, forecast_cache, wr, nRuns, nReq, resp>>
    /\ UNCHANGED <<call, ret>>

(* Lines 216-219: fit, predict, store forecast_cache["current"]. *)
UpdateStoreCurrent(p) ==
    /\ pc[p] = "u_wc"
    /\ IF loc[p].Xc = None
       THEN /\ pc' = [pc EXCEPT ![p] = "u_wd"]
            /\ UNCHANGED <<forecast_cache, wr, loc, gh, sleptOn>>
       ELSE IF FitRaises(loc[p].Xc)
       THEN /\ Leave(p, TRUE)
            /\ UNCHANGED <<forecast_cache, wr>>
       ELSE /\ forecast_cache' =
                  [forecast_cache EXCEPT !.current = Some(PredictNext(loc[p].Xc))]
            /\ wr' = [wr EXCEPT !.current = p]
            /\ pc' = [pc EXCEPT ![p] = "u_wd"]
            /\ UNCHANGED <<loc, gh, sleptOn>>
    /\ UNCHANGED <<store, storeUp, today, nRuns, nReq, resp>>
    /\ UNCHANGED <<call, ret>>

(* A return that leaves the date as it is. *)
ReturnWithoutDate(p) ==
    /\ pc[p] = "u_wd"
    /\ Leave(p, FALSE)
    /\ UNCHANGED <<store, storeUp, today, forecast_cache, wr, nRuns, nReq, resp>>
    /\ UNCHANGED <<call, ret>>

(* Lines 221-222: store forecast_cache["date"], log, return. *)
UpdateStoreDate(p) ==
    /\ pc[p] = "u_wd"
    /\ forecast_cache' = [forecast_cache EXCEPT !.date = Some(today)]
    /\ wr' = [wr EXCEPT !.date = p]
    /\ Leave(p, FALSE)
    /\ UNCHANGED <<store, storeUp, today, nRuns, nReq, resp>>
    /\ UNCHANGED <<call, ret>>

(***************************************************************************)
(* retrain_forecast_models, lines 226-233.                                 *)
(***************************************************************************)
(* Line 232: the loop calls update_forecast_cache. *)
RetrainCall ==
    /\ pc[Sched] = "s_call"
    /\ Enter(Sched, FALSE)
    /\ UNCHANGED <<store, storeUp, today, forecast_cache, nReq, loc, sleptOn>>
    /\ UNCHANGED <<call, ret>>

(* Line 233: time.sleep(86400) ends on the day after the one it began on. *)
RetrainWake ==
    /\ pc[Sched] = "s_sleep"
    /\ today > sleptOn
    /\ pc' = [pc EXCEPT ![Sched] = "s_call"]
    /\ UNCHANGED <<store, storeUp, today, forecast_cache, wr, nRuns, nReq, loc, gh,
                   resp, sleptOn>>
    /\ UNCHANGED <<call, ret>>

(***************************************************************************)
(* The request handlers that read the cache: api_forecast (lines 699-724)  *)
(* and sensor_dashboard (lines 468-637).                                   *)
(***************************************************************************)
(* The handler returns (or Flask turns its exception into a 500): the      *)
(* response is on its way to the client.                                   *)
Respond(p, status, body) ==
    /\ resp' = [resp EXCEPT ![p] = [@ EXCEPT !.status = status, !.body = body]]
    /\ pc' = [pc EXCEPT ![p] = "sent"]

(* A request arrives and a thread is given to it (the idle one with the    *)
(* lowest number: which thread it is makes no difference).  Lines 77-83: the *)
(* before_request hook runs db.create_all(), which raises without a        *)
(* database; lines 89-112: the login decorators answer an unauthenticated  *)
(* request themselves.                                                     *)
BeginRequest(p, handler, loggedIn) ==
    /\ pc[p] = "idle"
    /\ \A q \in Readers : pc[q] = "idle" => p <= q
    /\ nReq < MaxRequests
    /\ nReq' = nReq + 1
    /\ loc' = [loc EXCEPT ![p] = [NoLocals EXCEPT !.handler = handler]]
    /\ IF ~storeUp
       THEN Respond(p, 500, "error")
       ELSE IF ~loggedIn
       THEN Respond(p, IF handler = "api_forecast" THEN 401 ELSE 302, "login")
       ELSE /\ resp' = resp
            /\ pc' = [pc EXCEPT ![p] = IF handler = "sensor_dashboard" THEN "d_pre" ELSE "check"]
    /\ UNCHANGED <<store, storeUp, today, forecast_cache, wr, nRuns, gh, sleptOn>>
    /\ UNCHANGED <<call, ret>>

(* func.sum(column) over one day: NULL when every value of the day is NULL. *)
DayTotalIsNull(rows, d) ==
    \/ \A r \in rows : r.day = d => r.steps = None
    \/ \A r \in rows : r.day = d => r.v = None
    \/ \A r \in rows : r.day = d => r.c = None

(* sensor_dashboard, lines 476-556, with no filter: the CSV exports return *)
(* early; the metrics add up the daily totals, and sum() raises TypeError  *)
(* on a total that is None.                                                *)
DashboardQueries(p, export) ==
    /\ pc[p] = "d_pre"
    /\ IF ~storeUp
       THEN Respond(p, 500, "error")
       ELSE IF export # "none"
       THEN Respond(p, 200, "csv")
       ELSE IF \E r \in store : DayTotalIsNull(store, r.day)
       THEN Respond(p, 500, "error")
       ELSE /\ pc' = [pc EXCEPT ![p] = "check"]
            /\ resp' = resp
    /\ UNCHANGED <<store, storeUp, today, forecast_cache, wr, nRuns, nReq, loc, gh,
                   sleptOn>>
    /\ UNCHANGED <<call, ret>>

(* Lines 707-709 and 558-560: recompute first when the cache is not of today. *)
CheckStale(p) ==
    /\ pc[p] = "check"
    /\ IF CacheIsStale(forecast_cache, today)
       THEN Enter(p, TRUE)
       ELSE /\ pc' = [pc EXCEPT ![p] = "bm"]
            /\ UNCHANGED <<nRuns, gh, wr, resp>>
    /\ UNCHANGED <<store, storeUp, today, forecast_cache, nReq, loc, sleptOn>>
    /\ UNCHANGED <<call, ret>>

(* Lines 711-712 and 562-588: the queries made after the cache check       *)
(* (predict_highest_month twice; the dashboard, lines 581-582, also its    *)
(* chart and summary pages).  Without a database, or when fit raises, the  *)
(* exception leaves the handler and the request ends with 500.             *)
MonthlyForecast(p) ==
    /\ pc[p] = "bm"
    /\ IF storeUp
       THEN LET bv == predict_highest_month(store, "raw_voltage", MIN_MONTHS_REQUIRED)
                bc == predict_highest_month(store, "raw_current", MIN_MONTHS_REQUIRED)
            IN IF bv.raised \/ bc.raised
               THEN Respond(p, 500, "error")
               ELSE /\ pc' = [pc EXCEPT ![p] = "rv"]
                    /\ resp' = [resp EXCEPT ![p] =
                                  [@ EXCEPT !.best_voltage =
                                                [month |-> bv.month, value |-> bv.value],
                                            !.best_current =
                                                [month |-> bc.month, value |-> bc.value]]]
       ELSE Respond(p, 500, "error")
    /\ UNCHANGED <<store, storeUp, today, forecast_cache, wr, nRuns, nReq, loc, gh,
                   sleptOn>>
    /\ UNCHANGED <<call, ret>>

(* Lines 715 and 615: the response takes forecast_cache["voltage"]. *)
ReadVoltage(p) ==
    /\ pc[p] = "rv"
    /\ resp' = [resp EXCEPT ![p] = [@ EXCEPT !.v = forecast_cache.voltage, !.wv = wr.voltage]]
    /\ pc' = [pc EXCEPT ![p] = "rc"]
    /\ UNCHANGED <<store, storeUp, today, forecast_cache, wr, nRuns, nReq, loc, gh,
                   sleptOn>>
    /\ UNCHANGED <<call, ret>>

(* Lines 716 and 616: the response takes forecast_cache["current"] and is  *)
(* returned (jsonify, render_template).                                    *)
ReadCurrent(p) ==
    /\ pc[p] = "rc"
    /\ resp' = [resp EXCEPT ![p] =
                  [@ EXCEPT !.c = forecast_cache.current, !.wc = wr.current,
                            !.status = 200, !.body = "forecast"]]
    /\ pc' = [pc EXCEPT ![p] = "sent"]
    /\ UNCHANGED <<store, storeUp, today, forecast_cache, wr, nRuns, nReq, loc, gh,
                   sleptOn>>
    /\ UNCHANGED <<call, ret>>

(* The request is over: its thread, locals and response are gone. *)
EndRequest(p) ==
    /\ pc[p] = "sent"
    /\ pc' = [pc EXCEPT ![p] = "idle"]
    /\ loc' = [loc EXCEPT ![p] = NoLocals]
    /\ gh' = [gh EXCEPT ![p] = NoHistory]
    /\ resp' = [resp EXCEPT ![p] = NoResponse]
    /\ UNCHANGED <<store, storeUp, today, forecast_cache, wr, nRuns, nReq, sleptOn>>
    /\ UNCHANGED <<call, ret>>

(***************************************************************************)
(* add_log, lines 339-398.                                                 *)
(***************************************************************************)
(* Line 386: the invalidation. *)
Invalidate(cache) == [cache EXCEPT !.date = None]

NextId(rows) == IF rows = {} THEN 1 ELSE 1 + (CHOOSE i \in {r.id : r \in rows} :
                                                 \A r \in rows : r.id <= i)

(* A failure path that also resets the date. *)
DateDropped(cache) == [cache EXCEPT !.date = None]

(* Lines 394-398: the except clause rolls the session back and answers     *)
(* 500; it does not touch forecast_cache.  So does the 400 of line 371.    *)
OnFailure(cache) == cache

(* One request, served by thread p.  dtValid: datetime.fromisoformat       *)
(* accepts the string (else 400, lines 368-371).  Lines 374-380 construct  *)
(* SensorData with the keywords of AddLogKwargs; an exception anywhere in  *)
(* the try block rolls back and answers 500 (lines 394-398).  Lines        *)
(* 382-386: commit, then invalidate; lines 389-392: 201 for JSON, a        *)
(* redirect for a form.  Before the handler, lines 77-83: db.create_all(). *)
add_log(p, isJson, dtValid, day, steps, raw_voltage, raw_current) ==
    /\ pc[p] = "idle"
    /\ \A q \in Readers : pc[q] = "idle" => p <= q
    /\ nReq < MaxRequests
    /\ nReq' = nReq + 1
    /\ loc' = [loc EXCEPT ![p] = [NoLocals EXCEPT !.handler = "add_log"]]
    /\ IF ~storeUp
       THEN /\ Respond(p, 500, "error")
            /\ UNCHANGED <<store, forecast_cache, wr>>
       ELSE IF ~dtValid
       THEN /\ Respond(p, 400, "error")
            /\ forecast_cache' = OnFailure(forecast_cache)
            /\ UNCHANGED <<store, wr>>
       ELSE IF ~ConstructorAccepts(AddLogKwargs)
       THEN /\ Respond(p, 500, "error")
            /\ forecast_cache' = OnFailure(forecast_cache)
            /\ UNCHANGED <<store, wr>>
       ELSE /\ store' = store \cup {[id |-> NextId(store), day |-> day, steps |-> steps,
                                     v |-> raw_voltage, c |-> raw_current]}
            /\ forecast_cache' = Invalidate(forecast_cache)
            /\ wr' = [wr EXCEPT !.date = Earlier]
            /\ Respond(p, IF isJson THEN 201 ELSE 302, "logged")
    /\ UNCHANGED <<storeUp, today, nRuns, gh, sleptOn>>
    /\ UNCHANGED <<call, ret>>

(***************************************************************************)
(* The environment: the calendar and the database server.                  *)
(***************************************************************************)
(* Midnight passes.  The background thread sleeps 24 hours, so it wakes    *)
(* before a second midnight passes.                                        *)
DayRollover ==
    /\ today < MaxDay
    /\ ~(pc[Sched] = "s_sleep" /\ today > sleptOn)
    /\ today' = today + 1
    /\ UNCHANGED <<store, storeUp, forecast_cache, wr, nRuns, nReq, pc, loc, gh,
                   resp, sleptOn>>
    /\ UNCHANGED <<call, ret>>

StoreGoesDown ==
    /\ storeUp
    /\ storeUp' = FALSE
    /\ UNCHANGED <<store, today, forecast_cache, wr, nRuns, nReq, pc, loc, gh, resp,
                   sleptOn>>
    /\ UNCHANGED <<call, ret>>

StoreComesBack ==
    /\ ~storeUp
    /\ storeUp' = TRUE
    /\ UNCHANGED <<store, today, forecast_cache, wr, nRuns, nReq, pc, loc, gh, resp,
                   sleptOn>>
    /\ UNCHANGED <<call, ret>>

Handlers == {"api_forecast", "sensor_dashboard"}
Exports == {"none", "sensor", "summary"}
Values == {None, Some(1)}

Next ==
    \/ RetrainCall
    \/ RetrainWake
    \/ \E p \in Procs : UpdateQueryVoltage(p)
    \/ \E p \in Procs : UpdateStoreVoltage(p)
    \/ \E p \in Procs : UpdateQueryCurrent(p)
    \/ \E p \in Procs : UpdateStoreCurrent(p)
    \/ \E p \in Procs : UpdateStoreDate(p)
    \/ \E p \in Readers, h \in Handlers, a \in BOOLEAN : BeginRequest(p, h, a)
    \/ \E p \in Readers, e \in Exports : DashboardQueries(p, e)
    \/ \E p \in Readers : CheckStale(p)
    \/ \E p \in Readers : MonthlyForecast(p)
    \/ \E p \in Readers : ReadVoltage(p)
    \/ \E p \in Readers : ReadCurrent(p)
    \/ \E p \in Readers : EndRequest(p)
    \/ \E p \in Readers, j, ok \in BOOLEAN, v, c \in Values :
          add_log(p, j, ok, today, Some(1), v, c)
    \/ DayRollover
    \/ StoreGoesDown
    \/ StoreComesBack

Spec == Init /\ [][Next]_vars

(***************************************************************************)
(* Progress.  The background thread is a running thread: whenever it has a *)
(* statement to execute (the call, a step of update_forecast_cache, the    *)
(* end of its sleep) it executes it; and time passes.                      *)
(***************************************************************************)
SchedStep ==
    \/ RetrainCall
    \/ RetrainWake
    \/ UpdateQueryVoltage(Sched)
    \/ UpdateStoreVoltage(Sched)
    \/ UpdateQueryCurrent(Sched)
    \/ UpdateStoreCurrent(Sched)
    \/ UpdateStoreDate(Sched)

FairSpec == Spec /\ WF_vars(SchedStep) /\ WF_vars(DayRollover)

(***************************************************************************)
(* The functions on their own: update_forecast_cache's forecast of one     *)
(* field, load_monthly_data and predict_highest_month, called once on a    *)
(* table drawn from a family of tables.                                    *)
(***************************************************************************)
Fields == {"raw_voltage", "raw_current"}

(* The increasing sequences of k numbers between low and top. *)
Rising(k, low, top) ==
    {Ascending(S) : S \in {T \in SUBSET (low..top) : Cardinality(T) = k}}

(* One reading per entry: on day days[i], voltage vals[i], and a current   *)
(* that falls as the voltage rises.                                        *)
Rows(days, vals, top) ==
    {Reading(i, days[i], Some(vals[i]), Some(top + 1 - vals[i])) : i \in DOMAIN days}

(* Readings on up to three distinct days between 0 and MaxSpan. *)
SpreadTables ==
    UNION {{Rows(d, v, MaxValue) : d \in Rising(k, 0, MaxSpan),
                                   v \in [1..k -> 1..MaxValue]} : k \in 1..3}

(* Two or three readings on one day. *)
OneDayTables ==
    UNION {{Rows([i \in 1..k |-> 0], v, MaxValue) : v \in [1..k -> 1..MaxValue]} : k \in 2..3}

DailyTables == SpreadTables \cup OneDayTables \cup StoreChoices

(* The same value k times, and a sequence that is 1 at both ends and 2 in  *)
(* between.                                                                *)
Flat(k, low, top) == {[i \in 1..k |-> v] : v \in low..top}
Hump(k) == [i \in 1..k |-> IF i = 1 \/ i = k THEN 1 ELSE 2]

(* One reading on the first day of each of k months, the months start,     *)
(* start + stride, ...; the voltages rise from month to month, stay the    *)
(* same, or go up and come down again.                                     *)
MonthStarts == {0, 9}
Strides == {1, 2}
MonthlyTables ==
    UNION {{Rows([i \in 1..k |-> (s + st * (i - 1)) * DaysPerMonth], v, MaxMonthlyValue) :
                s \in MonthStarts, st \in Strides,
                v \in Rising(k, 1, MaxMonthlyValue)
                       \cup Flat(k, 1, MaxMonthlyValue) \cup {Hump(k)}} :
           k \in 0..MaxMonths}

(* One reading a day on up to MaxSeries days, every day or every second    *)
(* day; and a table with a day that has no voltage.                        *)
PageTables ==
    {Rows([i \in 1..n |-> st * (i - 1)], [i \in 1..n |-> 1 + (i % MaxValue)], MaxValue) :
        n \in 0..MaxSeries, st \in Strides}
    \cup {StoreNullVoltage}

(* Names a caller can pass as field: columns, the battery reading that    *)
(* add_log and api_get_battery_health name, and a name of nothing.         *)
FieldNames == {"steps", "raw_voltage", "raw_current", "battery_health", "id", "temperature"}

FnCalls ==
    [fn : {"update_forecast_cache"}, rows : DailyTables, field : Fields,
     min_months_required : {0}, page : {0}, per_page : {0}]
    \cup
    [fn : {"prepare_daily_avg_data"}, rows : DailyTables, field : FieldNames,
     min_months_required : {0}, page : {0}, per_page : {0}]
    \cup
    [fn : {"load_monthly_data", "predict_highest_month"}, rows : MonthlyTables,
     field : Fields, min_months_required : 0..MaxThreshold, page : {0}, per_page : {0}]
    \cup
    [fn : {"chart_data_alias", "api_sensor_data"}, rows : PageTables, field : {"none"},
     min_months_required : {0}, page : 1..MaxPage, per_page : 0..MaxPerPage]
    \cup
    [fn : {"sensor_dashboard"}, rows : PageTables, field : {"none"},
     min_months_required : {0}, page : 1..MaxPage, per_page : {chart_days_per_page}]

FnInit ==
    /\ store = StoreEmpty
    /\ storeUp = TRUE
    /\ today = 0
    /\ forecast_cache = EmptyCache
    /\ wr = [voltage |-> Earlier, current |-> Earlier, date |-> Earlier]
    /\ nRuns = 0
    /\ nReq = 0
    /\ pc = [p \in Procs |-> IF p = Sched THEN "off" ELSE "idle"]
    /\ loc = [p \in Procs |-> NoLocals]
    /\ gh = [p \in Procs |-> NoHistory]
    /\ resp = [p \in Readers |-> NoResponse]
    /\ sleptOn = 0
    /\ call \in FnCalls
    /\ ret = NoReturn

Returns(r) ==
    /\ ~ret.done
    /\ ret' = r
    /\ UNCHANGED <<store, storeUp, today, forecast_cache, wr, nRuns, nReq, pc, loc, gh,
                   resp, sleptOn, call>>

CallUpdateForecast ==
    /\ call.fn = "update_forecast_cache"
    /\ LET r == NextDayForecast(call.rows, call.field)
       IN Returns([NoReturn EXCEPT !.done = TRUE, !.raised = r.raised, !.value = r.value])

CallLoadMonthlyData ==
    /\ call.fn = "load_monthly_data"
    /\ Returns([NoReturn EXCEPT
                  !.done = TRUE,
                  !.df = load_monthly_data(call.rows, call.field, call.min_months_required)])

CallPredictHighestMonth ==
    /\ call.fn = "predict_highest_month"
    /\ LET r == predict_highest_month(call.rows, call.field, call.min_months_required)
       IN Returns([NoReturn EXCEPT !.done = TRUE, !.raised = r.raised,
                                   !.fitted = r.fitted, !.month = r.month,
                                   !.value = r.value])

(* Lines 126-146: the attribute lookup, then the query and the frame. *)
CallPrepareDailyAvg ==
    /\ call.fn = "prepare_daily_avg_data"
    /\ IF GetattrRaises(call.field)
       THEN Returns([NoReturn EXCEPT !.done = TRUE, !.raised = TRUE])
       ELSE Returns([NoReturn EXCEPT
                       !.done = TRUE,
                       !.df = prepare_daily_avg_data(call.rows, call.field)])

CallPage ==
    /\ call.fn \in {"chart_data_alias", "sensor_dashboard", "api_sensor_data"}
    /\ LET r == CASE call.fn = "chart_data_alias" ->
                        chart_data_alias(call.rows, call.page, call.per_page)
                   [] call.fn = "sensor_dashboard" ->
                        sensor_dashboard_chart(call.rows, call.page)
                   [] call.fn = "api_sensor_data" ->
                        api_sensor_data(call.rows, call.page, call.per_page)
       IN Returns([NoReturn EXCEPT !.done = TRUE, !.raised = r.raised,
                                   !.items = r.items, !.total_pages = r.total_pages])

FnNext ==
    \/ CallUpdateForecast
    \/ CallLoadMonthlyData
    \/ CallPredictHighestMonth
    \/ CallPrepareDailyAvg
    \/ CallPage

FnSpec == FnInit /\ [][FnNext]_vars

(***************************************************************************)
(* Properties of the forecast cache.                                       *)
(***************************************************************************)
Recomputing == {p \in Procs : pc[p] \in UpdatePcs}

(* C1: at most one execution of the recompute is in progress at any time;  *)
(* a caller arriving while one is in progress does not start a second one. *)
C1_AtMostOneRecompute == Cardinality(Recomputing) <= 1

(* The values of the cache and its date are the output of one and the same *)
(* execution, as far as the record of who stored what can tell.            *)
PublishedWhole ==
    /\ forecast_cache.voltage # None => wr.voltage = wr.date
    /\ forecast_cache.current # None => wr.current = wr.date

(* C3: a recompute publishes its three fields atomically: a reader that is *)
(* about to take the values never finds values of one recompute beside the *)
(* date of another (new values with the old date, or the reverse), even    *)
(* when no recompute has failed.                                           *)
C3_AtomicPublish ==
    \A p \in Readers :
        (pc[p] \in {"rv", "rc"} /\ \A q \in Procs : ~gh[q].failed) => PublishedWhole

(* C4: a recompute that ends by an exception leaves all three fields of    *)
(* the cache as they were before it began; so when the only execution ever *)
(* started has failed, the cache is as it was at start-up.                 *)
C4_FailureLeavesCache ==
    \A p \in Procs : (gh[p].failed /\ nRuns = 1) => forecast_cache = EmptyCache

Computable(field) ==
    /\ storeUp
    /\ prepare_daily_avg_data(store, field) # None
    /\ ~FitRaises(prepare_daily_avg_data(store, field))

(* C5: voltage and current are computed independently within a recompute:  *)
(* when the voltage computation fails and the current one is computable,   *)
(* the execution has stored the current by the time it ends, and when the  *)
(* current computation fails the voltage has been stored.                  *)
C5_IndependentForecasts ==
    [][\A p \in Procs :
          /\ (pc[p] = "u_wv" /\ gh'[p].failed /\ Computable("raw_current"))
                => wr'.current = p
          /\ (pc[p] = "u_wc" /\ gh'[p].failed /\ loc[p].Xv # None)
                => wr'.voltage # Earlier]_vars

(* C7: the voltage and the current of one forecast response come from the  *)
(* same execution of the recompute.                                        *)
C7_ResponseFromOneRecompute ==
    \A p \in Readers :
        (pc[p] = "sent" /\ resp[p].body = "forecast"
            /\ resp[p].v # None /\ resp[p].c # None)
        => resp[p].wv = resp[p].wc

(* C8: a fault inside the recompute never reaches its caller: the step on  *)
(* which an execution fails takes a handler to the statement after the     *)
(* call and the background thread to its sleep, as a normal return does.   *)
C8_FaultContained ==
    [][\A p \in Procs :
          (pc[p] \in UpdatePcs /\ gh'[p].failed)
          => pc'[p] = IF p = Sched THEN "s_sleep" ELSE "bm"]_vars

(* A handler whose recompute failed has answered 200 with the forecast     *)
(* body, and the background thread sleeps after a failed recompute.        *)
C8_Witness ==
    /\ gh[Sched].failed /\ pc[Sched] = "s_sleep"
    /\ \E p \in Readers :
          /\ gh[p].failed
          /\ pc[p] = "sent"
          /\ resp[p].status = 200
          /\ resp[p].body = "forecast"

(* C9: read-through.  A reader that finds the cache stale (no date, or a   *)
(* date that is not today) runs the recompute before it takes the values;  *)
(* one that finds it fresh starts no recompute and leaves the cache as it  *)
(* is.  The values are taken only after the test or the recompute.         *)
C9_ReadThrough ==
    [][\A p \in Readers :
          /\ (pc[p] = "check" /\ pc'[p] # "check") =>
                IF forecast_cache.date # Some(today)
                THEN pc'[p] = "u_qv" /\ nRuns' = nRuns + 1
                ELSE /\ pc'[p] = "bm"
                     /\ nRuns' = nRuns
                     /\ forecast_cache' = forecast_cache
          /\ (pc[p] # "bm" /\ pc'[p] = "bm") =>
                \/ pc[p] = "check" /\ forecast_cache.date = Some(today)
                \/ pc[p] \in UpdatePcs /\ gh[p].stale]_vars

(* A reader has found the date of an earlier day in the cache and is in    *)
(* the recompute it started.                                               *)
C9_Witness ==
    \E p \in Readers :
        /\ pc[p] = "u_qv"
        /\ gh[p].stale
        /\ forecast_cache.date # None
        /\ forecast_cache.date # Some(today)

(* An add_log request is being served on this step. *)
AddLogStep(p) == pc[p] = "idle" /\ loc'[p].handler = "add_log"

C14_SchedulerAlwaysStarted ==
    (\E p \in Readers : pc[p] # "idle") => pc[Sched] # "off"

(* The model's bounds leave the background thread nothing more to do: no   *)
(* further execution may start, or no further day comes.                   *)
Exhausted == nRuns = MaxRuns \/ (today = MaxDay /\ sleptOn = today)

(* C12: the scheduler loops forever: call, 24 hours of sleep, call again.  *)
(* It is always at a statement of its loop; it leaves the recompute only   *)
(* into its sleep and its sleep only on a later day into the next call;    *)
(* and after a failed recompute it starts the recompute of the next        *)
(* interval.                                                               *)
C12_SchedulerLoops ==
    /\ [](pc[Sched] \in {"off", "s_call", "s_sleep"} \cup UpdatePcs)
    /\ [][/\ pc[Sched] = "s_call" => pc'[Sched] \in {"s_call", "u_qv"}
          /\ (pc[Sched] \in UpdatePcs /\ pc'[Sched] \notin UpdatePcs)
                => pc'[Sched] = "s_sleep"
          /\ (pc[Sched] = "s_sleep" /\ pc'[Sched] # "s_sleep")
                => (pc'[Sched] = "s_call" /\ today > sleptOn)]_vars
    /\ gh[Sched].failed ~> (pc[Sched] = "u_qv" \/ Exhausted)

(* The background thread is in its second recompute, on a table for which  *)
(* every recompute fails, and no request was made: its first one failed.   *)
C12_Witness ==
    /\ store = StoreNullVoltage
    /\ nReq = 0
    /\ nRuns = 2
    /\ pc[Sched] = "u_qv"

(* Every reading carries a voltage and a current. *)
Complete(rows) == rows # {} /\ \A r \in rows : r.v # None /\ r.c # None

FreshByScheduler ==
    /\ forecast_cache.date = Some(today)
    /\ forecast_cache.voltage # None
    /\ forecast_cache.current # None
    /\ wr = [voltage |-> Sched, current |-> Sched, date |-> Sched]

C16_EmptyStoreForecast ==
    [][\A p \in Readers :
          (loc[p].handler = "api_forecast" /\ store = {}) =>
              /\ (storeUp /\ resp[p].status # 500) => resp'[p].status # 500
              /\ (pc'[p] = "sent" /\ resp'[p].status = 200) =>
                    /\ resp'[p].v = None
                    /\ resp'[p].c = None
                    /\ resp'[p].best_voltage = NoBest
                    /\ resp'[p].best_current = NoBest]_vars

(* api_forecast has answered 200 on an empty table after recomputing. *)
C16_Witness ==
    \E p \in Readers :
        /\ loc[p].handler = "api_forecast"
        /\ store = {}
        /\ gh[p].stale
        /\ pc[p] = "sent"
        /\ resp[p].status = 200

(***************************************************************************)
(* Properties of the predictors, on the functions called on their own.     *)
(***************************************************************************)
BucketMonths(rows) == {MonthOf(r.day) : r \in rows}
BucketDays(rows) == {r.day : r \in rows}
OnePerDay(rows) == \A r1, r2 \in rows : r1.day = r2.day => r1 = r2
ValueOn(rows, field, d) == FieldOf(CHOOSE r \in rows : r.day = d, field)[1]
FirstDay(rows) == CHOOSE d \in BucketDays(rows) : \A e \in BucketDays(rows) : d <= e
LastDay(rows) == CHOOSE d \in BucketDays(rows) : \A e \in BucketDays(rows) : e <= d

(* C15: for every field and threshold, with fewer monthly buckets than the *)
(* threshold load_monthly_data returns None and predict_highest_month      *)
(* returns (None, None) without fitting a regression.                      *)
C15_InsufficientHistory ==
    (ret.done /\ Cardinality(BucketMonths(call.rows)) < call.min_months_required) =>
        /\ call.fn = "load_monthly_data" => ret.df = None
        /\ call.fn = "predict_highest_month" =>
              /\ ret.month = None
              /\ ret.value = None
              /\ ~ret.fitted
              /\ ~ret.raised

(* predict_highest_month has returned for five months of readings under    *)
(* the default threshold.                                                  *)
C15_Witness ==
    /\ ret.done
    /\ call.fn = "predict_highest_month"
    /\ Cardinality(BucketMonths(call.rows)) = 5
    /\ call.min_months_required = MIN_MONTHS_REQUIRED
    /\ ret.month = None

(* C17: when all readings fall on one day the next-day forecast is that    *)
(* day's average of the field (to two decimals) and nothing is raised;     *)
(* with no readings it is absent.                                          *)
C17_SingleDay ==
    (ret.done /\ call.fn = "update_forecast_cache") =>
        /\ (Cardinality(BucketDays(call.rows)) = 1 /\ Complete(call.rows)) =>
              /\ ~ret.raised
              /\ ret.value = Some(Round2(SumOf(call.rows, call.field),
                                         Cardinality(call.rows)))
        /\ call.rows = {} => (~ret.raised /\ ret.value = None)

(* Three readings on one day with voltages adding up to 5: forecast 1.67. *)
C17_Witness ==
    /\ ret.done
    /\ call.fn = "update_forecast_cache"
    /\ call.field = "raw_voltage"
    /\ Cardinality(BucketDays(call.rows)) = 1
    /\ Cardinality(call.rows) = 3
    /\ SumOf(call.rows, "raw_voltage") = 5
    /\ ret.value = Some(167)

(* The daily values lie on one line over the days. *)
Collinear(rows, field) ==
    LET a == FirstDay(rows)
        b == LastDay(rows)
    IN \A d \in BucketDays(rows) :
          (ValueOn(rows, field, d) - ValueOn(rows, field, a)) * (b - a)
          = (ValueOn(rows, field, b) - ValueOn(rows, field, a)) * (d - a)

ThreeDays123 == Rows(<<0, 1, 2>>, <<1, 2, 3>>, MaxValue)

(* C18: when the daily averages lie exactly on a line over day_index, the  *)
(* next-day forecast is the line's value at (maximum day_index + 1); three *)
(* consecutive days with averages 1.0, 2.0, 3.0 have day_index 0, 1, 2 and *)
(* the forecast 4.0.                                                       *)
C18_PerfectLine ==
    (ret.done /\ call.fn = "update_forecast_cache") =>
        /\ (/\ OnePerDay(call.rows)
            /\ Cardinality(BucketDays(call.rows)) >= 2
            /\ Complete(call.rows)
            /\ Collinear(call.rows, call.field)) =>
              LET a == FirstDay(call.rows)
                  b == LastDay(call.rows)
                  ya == ValueOn(call.rows, call.field, a)
                  yb == ValueOn(call.rows, call.field, b)
              IN ret.value = Some(Round2(ya * (b - a) + (yb - ya) * (b + 1 - a), b - a))
        /\ (call.rows = ThreeDays123 /\ call.field = "raw_voltage") =>
              /\ ret.value = Some(400)
              /\ LET X == prepare_daily_avg_data(call.rows, call.field)
                 IN [i \in DOMAIN X |-> X[i].day_num] = <<0, 1, 2>>

C18_Witness ==
    /\ ret.done
    /\ call.fn = "update_forecast_cache"
    /\ call.rows = ThreeDays123
    /\ call.field = "raw_voltage"
    /\ ret.value = Some(400)

(* The daily values rise strictly with the date. *)
RisingWithDate(rows, field) ==
    /\ OnePerDay(rows)
    /\ Complete(rows)
    /\ Cardinality(BucketDays(rows)) >= 2
    /\ \A r1, r2 \in rows : r1.day < r2.day => FieldOf(r1, field)[1] < FieldOf(r2, field)[1]

Consecutive(rows) == LastDay(rows) - FirstDay(rows) + 1 = Cardinality(BucketDays(rows))

(* C19, as stated: for every daily series with strictly increasing         *)
(* averages, whatever the spacing of the days and the shape of the         *)
(* increase, the forecast is at least the last observed average.           *)
C19_AtLeastLastAverage ==
    (ret.done /\ call.fn = "update_forecast_cache" /\ RisingWithDate(call.rows, call.field)) =>
        /\ ret.value # None
        /\ ret.value[1] >= 100 * ValueOn(call.rows, call.field, LastDay(call.rows))

(* C19, amended: for a daily series with strictly increasing averages the  *)
(* forecast is at least the mean of the observed averages (to two          *)
(* decimals); it is at least the last observed average when the days are   *)
(* consecutive and at most three.                                          *)
C19_AtLeastMean ==
    (ret.done /\ call.fn = "update_forecast_cache" /\ RisingWithDate(call.rows, call.field)) =>
        /\ ret.value # None
        /\ ret.value[1] >= Round2(SumOf(call.rows, call.field), Cardinality(call.rows))
        /\ (Consecutive(call.rows) /\ Cardinality(call.rows) <= 3) =>
              ret.value[1] >= 100 * ValueOn(call.rows, call.field, LastDay(call.rows))

(* Days 0, 3, 4 with averages 1, 2, 5: the forecast is 4.92. *)
C19_Witness ==
    /\ ret.done
    /\ call.fn = "update_forecast_cache"
    /\ call.field = "raw_voltage"
    /\ call.rows = Rows(<<0, 3, 4>>, <<1, 2, 5>>, MaxValue)
    /\ ret.value = Some(492)

SevenRisingMonths(rows) ==
    /\ Cardinality(rows) = 7
    /\ Cardinality(BucketMonths(rows)) = 7
    /\ \A r \in rows : \E q \in rows :
          MonthOf(q.day) = MonthOf(r.day) + 1 \/ \A x \in rows : x.day <= r.day
    /\ \A r1, r2 \in rows : r1.day < r2.day => r1.v[1] < r2.v[1]

(* C20: for 7 consecutive months with strictly increasing monthly averages *)
(* predict_highest_month returns the 12th future month, the furthest of    *)
(* the extrapolated points.                                                *)
C20_FurthestMonthWins ==
    (/\ ret.done
     /\ call.fn = "predict_highest_month"
     /\ call.field = "raw_voltage"
     /\ call.min_months_required <= 7
     /\ SevenRisingMonths(call.rows)) =>
        /\ ~ret.raised
        /\ ret.month = Some(MonthOf(LastDay(call.rows)) + 12)
        /\ ret.value # None

(* Seven months from October on, default threshold: the best month is the  *)
(* twelfth after the last one.                                             *)
C20_Witness ==
    /\ ret.done
    /\ call.fn = "predict_highest_month"
    /\ call.field = "raw_voltage"
    /\ call.min_months_required = MIN_MONTHS_REQUIRED
    /\ SevenRisingMonths(call.rows)
    /\ MonthOf(FirstDay(call.rows)) = 9
    /\ ret.month = Some(27)

(***************************************************************************)
(* Properties of the best-month predictor, stated over the calendar: the   *)
(* least-squares line through (calendar month, monthly average).           *)
(***************************************************************************)
LastMonth(rows) == MonthOf(LastDay(rows))

CalendarSeries(rows, field) ==
    LET md == MonthlyData(rows, field)
    IN [i \in 1..Len(md) |-> [day_num |-> md[i].month, avg |-> md[i].avg]]

(* The line's values 1, 2, ..., Horizon months after the latest observed   *)
(* month, as fractions.                                                    *)
FutureValues(rows, field) ==
    LET series == CalendarSeries(rows, field)
        last == LastMonth(rows)
    IN [k \in 1..Horizon |-> PredictAt(series, last + k)]

AtMost(a, b) == a[1] * b[2] <= b[1] * a[2]

(* The months ahead, among the next Horizon, whose value no other exceeds. *)
Greatest(f) == {k \in 1..Horizon : \A j \in 1..Horizon : AtMost(f[j], f[k])}

AtMax(rows, field) == UNION {Greatest(f) : f \in {FutureValues(rows, field)}}

Earliest(S) == CHOOSE k \in S : \A j \in S : k <= j

(* C21: when several of the 12 extrapolated months share the greatest      *)
(* predicted value, predict_highest_month returns the earliest of them.    *)
C21_TieGoesToEarliest ==
    (/\ ret.done
     /\ call.fn = "predict_highest_month"
     /\ ret.month # None) =>
        \A tied \in {AtMax(call.rows, call.field)} :
            Cardinality(tied) > 1 => ret.month = Some(LastMonth(call.rows) + Earliest(tied))

(* Seven months whose averages go 1, 2, ..., 2, 1: the fitted slope is     *)
(* zero, all twelve months tie, and the month after the last is returned.  *)
C21_Witness ==
    /\ ret.done
    /\ call.fn = "predict_highest_month"
    /\ call.field = "raw_voltage"
    /\ call.min_months_required = MIN_MONTHS_REQUIRED
    /\ Cardinality(call.rows) = 7
    /\ \E r \in call.rows : r.v = Some(2)
    /\ \E r \in call.rows : r.v = Some(1)
    /\ Cardinality(AtMax(call.rows, call.field)) = Horizon
    /\ ret.month = Some(LastMonth(call.rows) + 1)

(* C22: the returned label is the calendar month k months after the latest *)
(* observed month for a k in 1..12, that month's predicted value is the    *)
(* greatest of the twelve months after the latest observed one and is the  *)
(* value returned (to two decimals); also when the observed months have    *)
(* gaps or span a year boundary.                                           *)
C22_LabelMatchesIndex ==
    (ret.done /\ call.fn = "predict_highest_month" /\ ret.month # None) =>
        \A k \in {ret.month[1] - LastMonth(call.rows)},
           f \in {FutureValues(call.rows, call.field)} :
            /\ k \in 1..Horizon
            /\ k \in Greatest(f)
            /\ ret.value = Some(Round2(f[k][1], f[k][2]))

(* Seven rising months, every second month from October of the first year  *)
(* to October of the second: the label is October of the third year.       *)
C22_Witness ==
    /\ ret.done
    /\ call.fn = "predict_highest_month"
    /\ call.field = "raw_voltage"
    /\ BucketMonths(call.rows) = {9, 11, 13, 15, 17, 19, 21}
    /\ \A r1, r2 \in call.rows : r1.day < r2.day => r1.v[1] < r2.v[1]
    /\ ret.month = Some(33)

(***************************************************************************)
(* Properties of the pages.                                                *)
(***************************************************************************)
ChartCalls == {"chart_data_alias", "sensor_dashboard"}
PageCalls == ChartCalls \cup {"api_sensor_data"}

(* The length of the series that is cut into pages: days for the charts,   *)
(* readings for the logs.                                                  *)
SeriesLength(c) ==
    IF c.fn \in ChartCalls THEN Cardinality(BucketDays(c.rows)) ELSE Cardinality(c.rows)

(* C23: for every series and page size > 0 the reported total_pages is the *)
(* least number of pages, at least 1, that holds the series, that is       *)
(* ceil(len/page_size) and 1 for an empty series; for the chart pages of   *)
(* chart_data_alias and sensor_dashboard and the log pages of              *)
(* api_sensor_data.                                                        *)
C23_TotalPages ==
    (ret.done /\ call.fn \in PageCalls /\ call.per_page > 0) =>
        /\ (call.rows = {} \/ Complete(call.rows)) => ~ret.raised
        /\ ~ret.raised =>
              \A n \in {SeriesLength(call)} :
                  /\ ret.total_pages >= 1
                  /\ ret.total_pages * call.per_page >= n
                  /\ ret.total_pages > 1 => (ret.total_pages - 1) * call.per_page < n
                  /\ n = 0 => ret.total_pages = 1

(* Seven days in pages of three: three pages. *)
C23_Witness ==
    /\ ret.done
    /\ call.fn = "chart_data_alias"
    /\ Cardinality(BucketDays(call.rows)) = 7
    /\ call.per_page = 3
    /\ ret.total_pages = 3

(* The chart pages as returned, joined from page k up to page last, and    *)
(* from page k down to page 1.                                             *)
RECURSIVE PagesUp(_, _, _, _)
PagesUp(rows, per_page, k, last) ==
    IF k > last THEN <<>>
    ELSE chart_data_alias(rows, k, per_page).items \o PagesUp(rows, per_page, k + 1, last)

RECURSIVE PagesDown(_, _, _)
PagesDown(rows, per_page, k) ==
    IF k < 1 THEN <<>>
    ELSE chart_data_alias(rows, k, per_page).items \o PagesDown(rows, per_page, k - 1)

Chronological(points) ==
    \A i, j \in DOMAIN points : i < j => points[i].date < points[j].date

ChartCase ==
    /\ ret.done
    /\ call.fn \in ChartCalls
    /\ call.per_page > 0
    /\ call.rows = {} \/ Complete(call.rows)

(* C24, as stated: the chart pages 1..total_pages, reversed as they are    *)
(* returned and joined in that order, are the whole series in              *)
(* chronological order.                                                    *)
C24_PagesInOrderChronological ==
    ChartCase =>
        \A all \in {PagesUp(call.rows, call.per_page, 1, ret.total_pages)} :
            /\ Len(all) = SeriesLength(call)
            /\ Chronological(all)

(* C24, amended: every chart page is a run of consecutive days of the      *)
(* descending series, returned oldest first; the pages joined from the     *)
(* last one to the first are the whole series in chronological order, each *)
(* day once (so the slices as cut, joined from the first page to the last, *)
(* are the series as stored); and a page after the last is empty.          *)
C24_PagesPartition ==
    ChartCase =>
        /\ Chronological(ret.items)
        /\ ret.items = chart_data_alias(call.rows, call.page, call.per_page).items
        /\ call.page > ret.total_pages => ret.items = <<>>
        /\ \A all \in {PagesDown(call.rows, call.per_page, ret.total_pages)},
              series \in {get_chart_query(call.rows)} :
                /\ Chronological(all)
                /\ Len(all) = Len(series)
                /\ \A i \in DOMAIN all : all[i] = ChartPoint(series[Len(series) + 1 - i])

(* Page 2 of seven days in pages of three: the three days before the       *)
(* latest three, oldest first.                                             *)
C24_Witness ==
    /\ ret.done
    /\ call.fn = "chart_data_alias"
    /\ BucketDays(call.rows) = 0..6
    /\ call.per_page = 3
    /\ call.page = 2
    /\ Len(ret.items) = 3
    /\ [i \in 1..3 |-> ret.items[i].date] = <<1, 2, 3>>

(***************************************************************************)
(* Properties of the aggregation queries.                                  *)
(***************************************************************************)
(* The four fields of a reading under the names the code gives them. *)
EnumeratedFields == {"steps", "raw_voltage", "raw_current", "battery_health"}

(* C25: an aggregate of a field outside {steps, voltage, current,          *)
(* battery_level} fails with a field error that reaches the caller, and an *)
(* aggregate of any of these four fields does not fail with a field error. *)
C25_FieldErrors ==
    (ret.done /\ call.fn = "prepare_daily_avg_data") =>
        (ret.raised <=> call.field \notin EnumeratedFields)

(* The series is ascending by day_num, starting at 0. *)
AscendingFromZero(series) ==
    /\ series # <<>> => series[1].day_num = 0
    /\ \A i, j \in DOMAIN series : i < j => series[i].day_num < series[j].day_num

(* C26: prepare_daily_avg_data yields exactly one bucket per distinct day  *)
(* that has readings, in ascending date order, with day_num the whole days *)
(* since the earliest date (the first 0, strictly increasing); and the     *)
(* series handed to a regression, daily or monthly, is ascending by its    *)
(* index.                                                                  *)
C26_AscendingBuckets ==
    /\ (ret.done /\ call.fn = "prepare_daily_avg_data" /\ ~ret.raised /\ call.rows # {}) =>
          /\ Len(ret.df) = Cardinality(BucketDays(call.rows))
          /\ AscendingFromZero(ret.df)
          /\ {ret.df[i].day_num + FirstDay(call.rows) : i \in DOMAIN ret.df}
                = BucketDays(call.rows)
    /\ (ret.done /\ call.fn = "update_forecast_cache") =>
          \A X \in {prepare_daily_avg_data(call.rows, call.field)} :
              /\ AscendingFromZero(X)
              /\ ret.value # None => ret.value = Some(PredictNext(X))
    /\ (ret.done /\ call.fn = "predict_highest_month" /\ ret.fitted) =>
          \A X \in {Regressors(load_monthly_data(call.rows, call.field,
                                                 call.min_months_required)[1])} :
              \A i, j \in DOMAIN X : i < j => X[i].day_num < X[j].day_num

(* Days 1, 3 and 4: three buckets with day_num 0, 2, 3. *)
C26_Witness ==
    /\ ret.done
    /\ call.fn = "prepare_daily_avg_data"
    /\ call.field = "raw_voltage"
    /\ BucketDays(call.rows) = {1, 3, 4}
    /\ [i \in DOMAIN ret.df |-> ret.df[i].day_num] = <<0, 2, 3>>

(* C28: in the frame of load_monthly_data month_num is strictly increasing *)
(* and the difference of two month_num values is the number of calendar    *)
(* months between the two months, across year boundaries and months with   *)
(* no readings; there is one row per month that has readings.              *)
C28_MonthIndex ==
    (ret.done /\ call.fn = "load_monthly_data" /\ ret.df # None) =>
        \A df \in {ret.df[1]} :
            /\ {df[i].month : i \in DOMAIN df} = BucketMonths(call.rows)
            /\ Len(df) = Cardinality(BucketMonths(call.rows))
            /\ \A i, j \in DOMAIN df :
                  i < j => /\ df[i].month_num < df[j].month_num
                           /\ df[j].month_num - df[i].month_num = df[j].month - df[i].month

(* Every second month from October of one year to October of the next:     *)
(* the last month_num is 12 above the first.                               *)
C28_Witness ==
    /\ ret.done
    /\ call.fn = "load_monthly_data"
    /\ ret.df # None
    /\ BucketMonths(call.rows) = {9, 11, 13, 15, 17, 19, 21}
    /\ ret.df[1][1].month_num = 10
    /\ ret.df[1][7].month_num = 22

(***************************************************************************)
(* Properties of the ingestion and of the recompute on particular tables.  *)
(***************************************************************************)
(* C27: an add_log request with a valid datetime (no 400), served while    *)
(* the database answers, ends with one new reading stored, the cache date  *)
(* reset and a success response (201, or the redirect of a form).          *)
C27_ValidAddLogStored ==
    [][\A p \in Readers :
          (AddLogStep(p) /\ storeUp /\ resp'[p].status # 400) =>
              /\ Cardinality(store') = Cardinality(store) + 1
              /\ forecast_cache'.date = None
              /\ resp'[p].status \in {201, 302}
              /\ resp'[p].body = "logged"]_vars

(* Thread p executes a statement on this step. *)
Moves(p) == pc'[p] # pc[p]

(* C29: a recompute that finds no daily data for a field passes over that  *)
(* field's key of the cache, leaving its value as it is, and still stores  *)
(* today's date, so that the cache is fresh with that field not            *)
(* recomputed.                                                             *)
C29_NoDataKeepsValue ==
    [][\A p \in Procs :
          /\ (pc[p] = "u_wv" /\ Moves(p) /\ loc[p].Xv = None) =>
                /\ forecast_cache' = forecast_cache
                /\ pc'[p] = "u_qc"
          /\ (pc[p] = "u_wc" /\ Moves(p) /\ loc[p].Xc = None) =>
                /\ forecast_cache' = forecast_cache
                /\ pc'[p] = "u_wd"
          /\ (pc[p] = "u_wd" /\ Moves(p) /\ (loc[p].Xv = None \/ loc[p].Xc = None)) =>
                /\ forecast_cache' = [forecast_cache EXCEPT !.date = Some(today)]
                /\ ~CacheIsStale(forecast_cache', today')
                /\ pc'[p] = AfterReturn(p)]_vars

(* A request found the cache stale on an empty table and recomputed: the   *)
(* cache is of today with both values absent.                              *)
C29_Witness ==
    \E p \in Readers :
        /\ store = {}
        /\ gh[p].stale
        /\ pc[p] = "bm"
        /\ wr.date = p
        /\ forecast_cache = [voltage |-> None, current |-> None, date |-> Some(today)]

(* C30: while the database answers, a read that found the cache stale      *)
(* leaves it fresh when its recompute returns, whatever the readings hold, *)
(* null voltages and currents included.                                    *)
C30_StaleReadLeavesFresh ==
    [][\A p \in Readers :
          (/\ gh[p].stale
           /\ pc[p] \in {"u_wv", "u_wc", "u_wd"}
           /\ pc'[p] = "bm") =>
              ~CacheIsStale(forecast_cache', today')]_vars

====
